---- MODULE Spec2Model ----
(***************************************************************************)
(* State-machine model of ctru-rs/src/services/ndsp.rs: the Ndsp device    *)
(* handle, Channel references, WaveBuffer sample buffers, WaveInfo         *)
(* playback descriptors and the per-channel wave queue kept by the DSP.    *)
(***************************************************************************)
EXTENDS Integers, Sequences, FiniteSets, Bags, TLC

\* ---------------------------------------------------------------- bounds
MaxHandles == 2
MaxChannels == 2
MaxWaves == 1
MaxLen == 2
MaxQueue == 2

\* ------------------------------------------------------ program constants
\* Highest valid channel id (`if id > 23`).
LastChannel == 23
\* Largest value of the `u8` parameter of Ndsp::channel.
U8Max == 255
\* std::ptr::null_mut().
NULL == 0
\* Outcome of the panic! arm of bytes_size: no number is returned.
Panic == -1
\* Where the `buffer` parameter of queue_wave lives: the frame of that call,
\* which is no slot of a WaveInfo the caller holds.
Frame == 0

AudioFormat ==
    {"PCM8Mono", "PCM16Mono", "ADPCMMono", "PCM8Stereo", "PCM16Stereo",
     "FrontBypass", "SurroundPreprocessed"}

\* One format of each byte width and the unsupported one.
FormatInputs == {"PCM8Mono", "PCM16Stereo", "SurroundPreprocessed"}

HwChannels == 0..LastChannel
\* Two WaveBuffer values: enough for a buffer and its clone.
BufferIds == {1, 2}
WaveIds == 1..MaxWaves
\* Linear memory: room for every buffer and one Box more.
Addrs == 1..(Cardinality(BufferIds) + 1)
Lens == 0..MaxLen
\* Result codes an FFI call may hand back: success and one failure.
ResultCodes == {0, -1}
\* Channel ids tried by callers: both ends of the valid range, the first
\* invalid id and the largest u8.
ChannelIdInputs == {0, 1, LastChannel, LastChannel + 1, U8Max}

VARIABLES
    ndsp,       \* number of live Ndsp values
    channels,   \* bag of live Channel values, each [id |-> i]
    buffers,    \* live WaveBuffer values: slot -> [data, audio_format, nsamples]
    waveinfos,  \* live WaveInfo values: slot -> [buffer, raw_data]
    flushed,    \* addresses whose range is clean in the DSP's view of memory
    queue,      \* DSP: per channel, the FIFO of queued ndspWaveBuf pointers
    playing,    \* DSP: per channel, the playing flag
    paused,     \* DSP: per channel, the paused flag
    last        \* the last call made and what it returned

vars == <<ndsp, channels, buffers, waveinfos, flushed, queue, playing, paused, last>>

Ret(op, arg, val) == [op |-> op, arg |-> arg, val |-> val]

Init ==
    /\ ndsp = 0
    /\ channels = EmptyBag
    /\ buffers = << >>
    /\ waveinfos = << >>
    /\ flushed = {}
    /\ queue = [c \in HwChannels |-> << >>]
    /\ playing = [c \in HwChannels |-> FALSE]
    /\ paused = [c \in HwChannels |-> FALSE]
    /\ last = Ret("start", NULL, NULL)

\* ------------------------------------------------------------- helpers
\* ResultCode(rc)?: a negative result code is an error.
R_FAILED(rc) == rc < 0

\* Linear-memory addresses held by no live Box.
FreeAddrs == Addrs \ {buffers[b].data.addr : b \in DOMAIN buffers}

\* The LinearAllocator hands out the lowest free address.
Alloc == CHOOSE a \in FreeAddrs : \A a2 \in FreeAddrs : a <= a2

\* Some live WaveInfo holds the `&'b mut WaveBuffer` of buffer b.
Borrowed(b) == \E d \in DOMAIN waveinfos : waveinfos[d].buffer = b

\* The caller can use buffer b: it is live and no WaveInfo borrows it.
Reachable(b) == b \in DOMAIN buffers /\ ~Borrowed(b)

Without(f, k) == [x \in DOMAIN f \ {k} |-> f[x]]

With(f, k, v) == [x \in DOMAIN f \cup {k} |-> IF x = k THEN v ELSE f[x]]

\* ---------------------------------------------------------- AudioFormat
\* A wrong bytes_size: the 16-bit stereo format is left to the `_` arm.
bytes_size_mono16_only(format) ==
    CASE format = "PCM16Mono" -> 2
      [] format = "SurroundPreprocessed" -> Panic
      [] OTHER -> 1

bytes_size(format) ==
    CASE format \in {"PCM16Mono", "PCM16Stereo"} -> 2
      [] format = "SurroundPreprocessed" -> Panic
      [] OTHER -> 1

bytes_size_call(format) ==
    /\ last' = Ret("bytes_size", format, bytes_size(format))
    /\ UNCHANGED <<ndsp, channels, buffers, waveinfos, flushed, queue, playing, paused>>

\* ----------------------------------------------------------- WaveBuffer
\* DSP_FlushDataCache(addr, len) with result rc: the range is clean on success.
DSP_FlushDataCache(addr, rc) ==
    flushed' = IF R_FAILED(rc) THEN flushed ELSE flushed \cup {addr}

\* The caller hands over a freshly allocated Box of `len` bytes; rc is the
\* result of the cache flush.
WaveBuffer_new(b, len, audio_format, rc) ==
    /\ b \notin DOMAIN buffers
    /\ FreeAddrs # {}
    /\ LET addr == Alloc
       IN IF bytes_size(audio_format) = Panic
          THEN /\ last' = Ret("WaveBuffer::new", NULL, "panic")
               /\ UNCHANGED <<buffers, flushed>>
          ELSE LET nsamples == len \div bytes_size(audio_format)
               IN /\ DSP_FlushDataCache(addr, rc)
                  /\ IF R_FAILED(rc)
                     THEN /\ last' = Ret("WaveBuffer::new", NULL, "Err")
                          /\ UNCHANGED buffers
                     ELSE /\ last' = Ret("WaveBuffer::new",
                                 [b |-> b, len |-> len, audio_format |-> audio_format], "Ok")
                          /\ buffers' = With(buffers, b,
                                 [data |-> [addr |-> addr, len |-> len],
                                  audio_format |-> audio_format,
                                  nsamples |-> nsamples])
    /\ UNCHANGED <<ndsp, channels, waveinfos, queue, playing, paused>>

\* #[derive(Clone)]: the Box is copied into a fresh allocation, the other
\* fields are copied as they are; no call is made to the DSP.
WaveBuffer_clone(b, b2) ==
    /\ Reachable(b)
    /\ b2 \notin DOMAIN buffers
    /\ FreeAddrs # {}
    /\ buffers' = With(buffers, b2,
           [data |-> [addr |-> Alloc, len |-> buffers[b].data.len],
            audio_format |-> buffers[b].audio_format,
            nsamples |-> buffers[b].nsamples])
    /\ last' = Ret("WaveBuffer::clone", b2, b)
    /\ UNCHANGED <<ndsp, channels, waveinfos, flushed, queue, playing, paused>>

\* get_mut_data returns `&mut Box<[u8], LinearAllocator>`.  Through it the
\* caller rewrites the bytes in place (replace = FALSE) or assigns another
\* Box, of any length len2, to the field; the old Box is then freed.
\* A wrong get_mut_data: the sample count follows the length of the new Box.
get_mut_data_recounts(b, replace, len2) ==
    /\ Reachable(b)
    /\ IF replace
       THEN /\ FreeAddrs # {}
            /\ buffers' = [buffers EXCEPT
                   ![b].data = [addr |-> Alloc, len |-> len2],
                   ![b].nsamples = len2 \div bytes_size(buffers[b].audio_format)]
       ELSE /\ len2 = buffers[b].data.len
            /\ UNCHANGED buffers
    /\ flushed' = flushed \ {buffers[b].data.addr}
    /\ last' = Ret("get_mut_data", b, replace)
    /\ UNCHANGED <<ndsp, channels, waveinfos, queue, playing, paused>>

get_mut_data(b, replace, len2) ==
    /\ Reachable(b)
    /\ IF replace
       THEN /\ FreeAddrs # {}
            /\ buffers' = [buffers EXCEPT ![b].data = [addr |-> Alloc, len |-> len2]]
       ELSE /\ len2 = buffers[b].data.len
            /\ UNCHANGED buffers
    /\ flushed' = flushed \ {buffers[b].data.addr}
    /\ last' = Ret("get_mut_data", b, replace)
    /\ UNCHANGED <<ndsp, channels, waveinfos, queue, playing, paused>>

get_format(b) == buffers[b].audio_format

get_format_call(b) ==
    /\ Reachable(b)
    /\ last' = Ret("get_format", b, get_format(b))
    /\ UNCHANGED <<ndsp, channels, buffers, waveinfos, flushed, queue, playing, paused>>

get_sample_amount(b) == buffers[b].nsamples

get_sample_amount_call(b) ==
    /\ Reachable(b)
    /\ last' = Ret("get_sample_amount", b, get_sample_amount(b))
    /\ UNCHANGED <<ndsp, channels, buffers, waveinfos, flushed, queue, playing, paused>>

\* Drop for WaveBuffer: the range is invalidated (result ignored), then the
\* Box is freed.
WaveBuffer_drop(b) ==
    /\ b \in DOMAIN buffers
    /\ ~Borrowed(b)
    /\ buffers' = Without(buffers, b)
    /\ flushed' = flushed \ {buffers[b].data.addr}
    /\ last' = Ret("WaveBuffer::drop", b, "Ok")
    /\ UNCHANGED <<ndsp, channels, waveinfos, queue, playing, paused>>

\* ------------------------------------------------------------- WaveInfo
\* A wrong WaveInfo::new: the loop flag is not taken from the argument.
WaveInfo_new_never_loops(d, b, looping) ==
    /\ d \notin DOMAIN waveinfos
    /\ b \in DOMAIN buffers
    /\ ~Borrowed(b)
    /\ LET raw_data == [data_vaddr |-> buffers[b].data.addr,
                        nsamples |-> buffers[b].nsamples,
                        adpcm_data |-> NULL,
                        offset |-> 0,
                        looping |-> FALSE,
                        status |-> 0,
                        sequence_id |-> 0,
                        next |-> NULL]
       IN waveinfos' = With(waveinfos, d, [buffer |-> b, raw_data |-> raw_data])
    /\ last' = Ret("WaveInfo::new", [b |-> b, looping |-> looping], d)
    /\ UNCHANGED <<ndsp, channels, buffers, flushed, queue, playing, paused>>

WaveInfo_new(d, b, looping) ==
    /\ d \notin DOMAIN waveinfos
    /\ b \in DOMAIN buffers
    /\ ~Borrowed(b)
    /\ LET raw_data == [data_vaddr |-> buffers[b].data.addr,
                        nsamples |-> buffers[b].nsamples,
                        adpcm_data |-> NULL,
                        offset |-> 0,
                        looping |-> looping,
                        status |-> 0,
                        sequence_id |-> 0,
                        next |-> NULL]
       IN waveinfos' = With(waveinfos, d, [buffer |-> b, raw_data |-> raw_data])
    /\ last' = Ret("WaveInfo::new", [b |-> b, looping |-> looping], d)
    /\ UNCHANGED <<ndsp, channels, buffers, flushed, queue, playing, paused>>

\* `&'b mut self` borrows the WaveInfo for the whole of 'b: the value can
\* never be used again (nor passed to queue_wave), and from here on the
\* buffer is used through the returned `&'b mut WaveBuffer`.
get_mut_wavebuffer(d) ==
    /\ d \in DOMAIN waveinfos
    /\ waveinfos' = Without(waveinfos, d)
    /\ last' = Ret("get_mut_wavebuffer", d, waveinfos[d].buffer)
    /\ UNCHANGED <<ndsp, channels, buffers, flushed, queue, playing, paused>>

\* A WaveInfo going out of scope (it has no Drop impl): the borrow ends.
WaveInfo_drop(d) ==
    /\ d \in DOMAIN waveinfos
    /\ waveinfos' = Without(waveinfos, d)
    /\ last' = Ret("WaveInfo::drop", d, "Ok")
    /\ UNCHANGED <<ndsp, channels, buffers, flushed, queue, playing, paused>>

\* ----------------------------------------------------------------- Ndsp
\* ndspInit() returned rc.  Nothing on the Rust side records that a handle
\* already exists: whether a second call succeeds is the library's answer.
init(rc) ==
    /\ ndsp < MaxHandles
    /\ IF R_FAILED(rc)
       THEN /\ last' = Ret("init", rc, "Err")
            /\ UNCHANGED ndsp
       ELSE /\ last' = Ret("init", rc, "Ok")
            /\ ndsp' = ndsp + 1
    /\ UNCHANGED <<channels, buffers, waveinfos, flushed, queue, playing, paused>>

\* Drop for Ndsp: ndspExit().
Ndsp_drop ==
    /\ ndsp > 0
    /\ ndsp' = ndsp - 1
    /\ last' = Ret("Ndsp::drop", NULL, "Ok")
    /\ UNCHANGED <<channels, buffers, waveinfos, flushed, queue, playing, paused>>

\* A wrong channel: the test is `id >= 23`, so channel 23 is refused.
channel_refuses_last(id) ==
    /\ ndsp > 0
    /\ id \in 0..U8Max
    /\ IF id >= LastChannel
       THEN /\ last' = Ret("channel", id, [ok |-> FALSE, id |-> id])
            /\ UNCHANGED channels
       ELSE /\ BagCardinality(channels) < MaxChannels
            /\ last' = Ret("channel", id, [ok |-> TRUE, id |-> id])
            /\ channels' = channels (+) SetToBag({[id |-> id]})
    /\ UNCHANGED <<ndsp, buffers, waveinfos, flushed, queue, playing, paused>>

\* `id.into()`: u8 -> i32, every u8 keeps its value.
channel(id) ==
    /\ ndsp > 0
    /\ id \in 0..U8Max
    /\ IF id > LastChannel
       THEN /\ last' = Ret("channel", id, [ok |-> FALSE, id |-> id])
            /\ UNCHANGED channels
       ELSE /\ BagCardinality(channels) < MaxChannels
            /\ last' = Ret("channel", id, [ok |-> TRUE, id |-> id])
            /\ channels' = channels (+) SetToBag({[id |-> id]})
    /\ UNCHANGED <<ndsp, buffers, waveinfos, flushed, queue, playing, paused>>

\* ------------------------------------------------------ the DSP's channels
\* The buffer is appended to the channel's FIFO; playback starts when the
\* queue was empty.
ndspChnWaveBufAdd(id, node, over) ==
    /\ queue' = [queue EXCEPT ![id] = Append(@, [node |-> node, over |-> over])]
    /\ playing' = [playing EXCEPT ![id] = TRUE]

\* Every queued buffer is dropped and playback stops.
ndspChnWaveBufClear(id) ==
    /\ queue' = [queue EXCEPT ![id] = << >>]
    /\ playing' = [playing EXCEPT ![id] = FALSE]

ndspChnSetPaused(id, state) == paused' = [paused EXCEPT ![id] = state]

ndspChnIsPlaying(id) == playing[id]

\* The DSP finishes the buffer at the head of a channel's queue.
HwPlaybackDone(c) ==
    /\ queue[c] # << >>
    /\ ~paused[c]
    /\ queue' = [queue EXCEPT ![c] = Tail(@)]
    /\ playing' = [playing EXCEPT ![c] = Tail(queue[c]) # << >>]
    /\ last' = Ret("playback_done", c, NULL)
    /\ UNCHANGED <<ndsp, channels, buffers, waveinfos, flushed, paused>>

\* -------------------------------------------------------------- Channel
HasChannel(c) == BagIn([id |-> c], channels)

is_playing(c) == ndspChnIsPlaying(c)

is_playing_call(c) ==
    /\ HasChannel(c)
    /\ last' = Ret("is_playing", c, is_playing(c))
    /\ UNCHANGED <<ndsp, channels, buffers, waveinfos, flushed, queue, playing, paused>>

set_paused(c, state) ==
    /\ HasChannel(c)
    /\ ndspChnSetPaused(c, state)
    /\ last' = Ret("set_paused", c, state)
    /\ UNCHANGED <<ndsp, channels, buffers, waveinfos, flushed, queue, playing>>

\* A wrong clear_queue: the channel is paused, its queue is left alone.
clear_queue_pauses(c) ==
    /\ HasChannel(c)
    /\ ndspChnSetPaused(c, TRUE)
    /\ last' = Ret("clear_queue", c, Len(queue[c]))
    /\ UNCHANGED <<ndsp, channels, buffers, waveinfos, flushed, queue, playing>>

\* last.val keeps how many buffers the queue held when the call was made.
clear_queue(c) ==
    /\ HasChannel(c)
    /\ ndspChnWaveBufClear(c)
    /\ last' = Ret("clear_queue", c, Len(queue[c]))
    /\ UNCHANGED <<ndsp, channels, buffers, waveinfos, flushed, paused>>

\* `mut buffer: WaveInfo` is moved into the call; the DSP is given the
\* address of buffer.raw_data, a field of that parameter; the parameter is
\* dropped when the call returns, which also ends the borrow of the
\* WaveBuffer.
queue_wave(c, d) ==
    /\ HasChannel(c)
    /\ d \in DOMAIN waveinfos
    /\ Len(queue[c]) < MaxQueue
    /\ ndspChnWaveBufAdd(c, Frame, waveinfos[d].buffer)
    /\ waveinfos' = Without(waveinfos, d)
    /\ last' = Ret("queue_wave", c, waveinfos[d].buffer)
    /\ UNCHANGED <<ndsp, channels, buffers, flushed, paused>>

\* --------------------------------------------------------- specifications
\* The device handle, channel references and the format table.
NextDevice ==
    \/ \E rc \in ResultCodes : init(rc)
    \/ Ndsp_drop
    \/ \E id \in ChannelIdInputs : channel(id)
    \/ \E f \in AudioFormat : bytes_size_call(f)

SpecDevice == Init /\ [][NextDevice]_vars

\* Sample buffers and playback descriptors.
NextBuffer ==
    \/ \E b \in BufferIds, len \in Lens, f \in FormatInputs, rc \in ResultCodes :
          WaveBuffer_new(b, len, f, rc)
    \/ \E b \in BufferIds, b2 \in BufferIds : WaveBuffer_clone(b, b2)
    \/ \E b \in BufferIds, r \in BOOLEAN, len \in Lens : get_mut_data(b, r, len)
    \/ \E b \in BufferIds : get_format_call(b)
    \/ \E b \in BufferIds : get_sample_amount_call(b)
    \/ \E b \in BufferIds : WaveBuffer_drop(b)
    \/ \E d \in WaveIds, b \in BufferIds, l \in BOOLEAN : WaveInfo_new(d, b, l)
    \/ \E d \in WaveIds : get_mut_wavebuffer(d)
    \/ \E d \in WaveIds : WaveInfo_drop(d)

SpecBuffer == Init /\ [][NextBuffer]_vars

\* Queueing on channel 0, with buffers of MaxLen bytes of 16-bit stereo.
NextQueue ==
    \/ init(0)
    \/ channel(0)
    \/ \E b \in BufferIds : WaveBuffer_new(b, MaxLen, "PCM16Stereo", 0)
    \/ \E b \in BufferIds, r \in BOOLEAN : get_mut_data(b, r, MaxLen)
    \/ \E b \in BufferIds : WaveBuffer_drop(b)
    \/ \E d \in WaveIds, b \in BufferIds, l \in BOOLEAN : WaveInfo_new(d, b, l)
    \/ \E d \in WaveIds : WaveInfo_drop(d)
    \/ \E c \in HwChannels, d \in WaveIds : queue_wave(c, d)
    \/ \E c \in HwChannels : clear_queue(c)
    \/ \E c \in HwChannels, st \in BOOLEAN : set_paused(c, st)
    \/ \E c \in HwChannels : is_playing_call(c)
    \/ \E c \in HwChannels : HwPlaybackDone(c)

SpecQueue == Init /\ [][NextQueue]_vars

\* ================================================================ claims
\* Buffer b is the one a queued ndspWaveBuf was built over.
HwReferences(b) ==
    \E c \in HwChannels : \E i \in 1..Len(queue[c]) : queue[c][i].over = b

\* C1: every ndspWaveBuf a channel's queue points to is a WaveInfo that is
\* still allocated: not moved, not dropped.
C1_QueuedDescriptorAlive ==
    \A c \in HwChannels : \A i \in 1..Len(queue[c]) :
        queue[c][i].node \in DOMAIN waveinfos

\* C2: while a channel's queue references a descriptor over buffer b, no step
\* creates a WaveInfo over b, hands out b's storage mutably or destroys b.
C2_ExclusiveWhileQueued ==
    [][\A b \in BufferIds :
          HwReferences(b) =>
              /\ ~(last'.op = "WaveInfo::new" /\ last'.arg.b = b)
              /\ ~(last'.op = "get_mut_data" /\ last'.arg = b)
              /\ ~(last'.op = "WaveBuffer::drop" /\ last'.arg = b)]_vars

\* C3: channel(i) with i in 0..=23 returns a Channel whose id is i and adds
\* that one reference, also when references to i exist already; with i > 23
\* it returns InvalidChannel(i) and adds no reference.
C3_ChannelRange ==
    [][last'.op = "channel" =>
          LET id == last'.arg
          IN IF id \in 0..23
             THEN /\ last'.val = [ok |-> TRUE, id |-> id]
                  /\ channels' = channels (+) SetToBag({[id |-> id]})
             ELSE /\ last'.val = [ok |-> FALSE, id |-> id]
                  /\ channels' = channels]_vars

\* C3 witness: a second reference to channel 23 has just been returned.
C3_Witness ==
    /\ last.op = "channel"
    /\ last.arg = 23
    /\ last.val.ok
    /\ CopiesIn([id |-> 23], channels) = 2

\* C4: at most one Ndsp is live at any time.
C4_SingleHandle == ndsp <= 1

\* C5: right after clear_queue(c) returns, the queue of channel c references
\* no descriptor and is_playing(c) is false.
C5_ClearQueueSync ==
    last.op = "clear_queue" =>
        /\ queue[last.arg] = << >>
        /\ is_playing(last.arg) = FALSE

\* C5 witness: clear_queue has just returned on a paused channel whose queue
\* was full.
C5_Witness ==
    /\ last.op = "clear_queue"
    /\ last.val = MaxQueue
    /\ paused[last.arg]

\* C6: WaveBuffer::new sets the sample count to len / bytes_size (integer
\* division), and no step changes the sample count of a buffer that stays
\* alive.
C6_SampleAmountFixed ==
    [][\A b \in BufferIds :
          /\ (last'.op = "WaveBuffer::new" /\ last'.val = "Ok" /\ last'.arg.b = b) =>
                 get_sample_amount(b)' =
                     last'.arg.len \div bytes_size(last'.arg.audio_format)
          /\ (b \in DOMAIN buffers /\ b \in DOMAIN buffers') =>
                 get_sample_amount(b)' = get_sample_amount(b)]_vars

\* C6 witness: get_sample_amount has just returned a count that is not the
\* present storage length divided by the byte width: the storage was replaced
\* and the count kept.
C6_Witness ==
    /\ last.op = "get_sample_amount"
    /\ last.arg \in DOMAIN buffers
    /\ last.val = get_sample_amount(last.arg)
    /\ last.val # buffers[last.arg].data.len \div bytes_size(get_format(last.arg))

\* C7: bytes_size is 1 for the 8-bit formats and FrontBypass, 2 for the
\* 16-bit formats, 1 or 2 for every format but SurroundPreprocessed, and a
\* panic for SurroundPreprocessed.
C7_BytesSize ==
    last.op = "bytes_size" =>
        /\ last.arg \in {"PCM8Mono", "PCM8Stereo", "FrontBypass"} => last.val = 1
        /\ last.arg \in {"PCM16Mono", "PCM16Stereo"} => last.val = 2
        /\ last.arg # "SurroundPreprocessed" => last.val \in {1, 2}
        /\ last.arg = "SurroundPreprocessed" => last.val = Panic

\* C7 witness: bytes_size has just been asked for SurroundPreprocessed and
\* has panicked.
C7_Witness ==
    /\ last.op = "bytes_size"
    /\ last.arg = "SurroundPreprocessed"
    /\ last.val = Panic

\* C8: the record WaveInfo::new builds has the loop flag given, the buffer's
\* sample count and storage address, offset 0, and zero/null status,
\* sequence_id, next and adpcm_data.
C8_WaveInfoNew ==
    last.op = "WaveInfo::new" =>
        LET b == last.arg.b
            w == waveinfos[last.val]
        IN /\ w.buffer = b
           /\ w.raw_data.looping = last.arg.looping
           /\ w.raw_data.nsamples = get_sample_amount(b)
           /\ w.raw_data.data_vaddr = buffers[b].data.addr
           /\ w.raw_data.offset = 0
           /\ w.raw_data.status = 0
           /\ w.raw_data.sequence_id = 0
           /\ w.raw_data.next = NULL
           /\ w.raw_data.adpcm_data = NULL

\* C8 witness: a looping descriptor has just been built over a buffer that
\* holds samples.
C8_Witness ==
    /\ last.op = "WaveInfo::new"
    /\ last.arg.looping
    /\ waveinfos[last.val].raw_data.nsamples > 0

\* C9: a WaveBuffer comes into existence only with the range of its storage
\* flushed, and a failed flush produces no buffer.
C9_FlushedAtCreation ==
    [][/\ \A b \in BufferIds :
              (b \notin DOMAIN buffers /\ b \in DOMAIN buffers') =>
                  buffers'[b].data.addr \in flushed'
       /\ (last'.op = "WaveBuffer::new" /\ last'.val = "Err") =>
              buffers' = buffers]_vars

\* C10: a buffer's sample count times its byte width never exceeds the
\* length of its storage, and neither does that of a descriptor built over it.
C10_SamplesWithinStorage ==
    /\ \A b \in DOMAIN buffers :
           get_sample_amount(b) * bytes_size(get_format(b)) <= buffers[b].data.len
    /\ \A d \in DOMAIN waveinfos :
           LET b == waveinfos[d].buffer
           IN waveinfos[d].raw_data.nsamples * bytes_size(get_format(b))
                  <= buffers[b].data.len
====
